---- MODULE Spec2Model ----
(***************************************************************************)
(* Model of swot_simulator.error.generator.Generator: construction of the  *)
(* active error models from the configured noise list, and one generate    *)
(* call at a time: the short-circuit, the submission loop over the active  *)
(* models, the workers completing the submitted units in any order, and    *)
(* the drain of the completions into the aggregate mapping.                *)
(***************************************************************************)
EXTENDS Naturals, Sequences, FiniteSets

\* Longest configured noise list that is explored.
MaxNoise == 2

\* Longest along-track array that is explored (x_al.shape[0] in 0..MaxLen).
MaxLen == 1

\* Most generate calls followed on one Generator when calls are counted.
MaxCalls == 2

\* Longest noise list of a Generator shared by two concurrent calls.
MaxConcNoise == 2

\* Threads of one worker process that call setup_worker_logging.
LogThreads == 2

\* Most records a peer writes to one log stream.
MaxRecords == 2

\* Longest payload of a record, in bytes.
MaxPayload == 27

\* Most calls of logbook.setup in the process.
MaxSetups == 1

\* Most ssh arrays registered on one product.
MaxSsh == 3

\* The six error classes imported by generator.py.
Known ==
    {"Altimeter", "BaselineDilation", "Karin", "RollPhase", "Timing",
     "WetTroposphere"}

\* Names that are no error class, to exercise the else branch of __init__.
Unknown == {"Bogus", "Other"}

Names == Known \cup Unknown

NoName == "-"

RECURSIVE SeqsUpTo(_, _)
SeqsUpTo(S, n) ==
    IF n = 0 THEN {<<>>}
    ELSE LET shorter == SeqsUpTo(S, n - 1)
         IN  shorter \cup {Append(s, x) : s \in {t \in shorter : Len(t) = n - 1}, x \in S}

\* The configurations explored: every list of at most MaxNoise names.
NoiseLists == SeqsUpTo(Names, MaxNoise)

Range(s) == {s[i] : i \in 1..Len(s)}

(***************************************************************************)
(* The error models.  Their classes live outside the files modelled here:  *)
(* each declares a fixed set of output field names, disjoint from every    *)
(* other class's, and a computation that succeeds returns a mapping with   *)
(* exactly these names.                                                    *)
(***************************************************************************)
Fields(variant) ==
    CASE variant = "Altimeter"        -> {"simulated_error_altimeter"}
      [] variant = "BaselineDilation" -> {"simulated_error_baseline_dilation"}
      [] variant = "Karin"            -> {"simulated_error_karin"}
      [] variant = "RollPhase"        -> {"simulated_error_roll", "simulated_error_phase"}
      [] variant = "Timing"           -> {"simulated_error_timing"}
      [] variant = "WetTroposphere"   -> {"simulated_error_troposphere",
                                          "simulated_error_troposphere_nadir"}
      [] OTHER                        -> {}

AllFields == UNION {Fields(v) : v \in Known}

\* A mapping from field names to values; a value is abstracted to the
\* position, in self.generators, of the instance that computed it.
EmptyMap == [f \in {} |-> 0]

\* What item.generate returns for the instance at position i of gens.
Output(gens, i) == [f \in Fields(gens[i].variant) |-> i]

(***************************************************************************)
(* Generator.__init__                                                      *)
(***************************************************************************)
NoModel == [variant |-> NoName, channels |-> <<>>]

\* A mis-wired branch: Timing is built from the roll spectrum.
NewModel_WrongChannel(item) ==
    IF item = "Altimeter" THEN [variant |-> item, channels |-> <<>>]
    ELSE IF item = "BaselineDilation"
    THEN [variant |-> item, channels |-> <<"dilationPSD", "spatial_frequency">>]
    ELSE IF item = "Karin" THEN [variant |-> item, channels |-> <<>>]
    ELSE IF item = "RollPhase"
    THEN [variant |-> item, channels |-> <<"rollPSD", "phasePSD", "spatial_frequency">>]
    ELSE IF item = "Timing"
    THEN [variant |-> item, channels |-> <<"rollPSD", "spatial_frequency">>]
    ELSE IF item = "WetTroposphere" THEN [variant |-> item, channels |-> <<>>]
    ELSE NoModel

\* The if/elif chain of __init__: the instance built for one configured name,
\* with the error_spectrum channels handed to its constructor, in order;
\* NoModel stands for the else branch.
NewModel(item) ==
    IF item = "Altimeter" THEN [variant |-> item, channels |-> <<>>]
    ELSE IF item = "BaselineDilation"
    THEN [variant |-> item, channels |-> <<"dilationPSD", "spatial_frequency">>]
    ELSE IF item = "Karin" THEN [variant |-> item, channels |-> <<>>]
    ELSE IF item = "RollPhase"
    THEN [variant |-> item, channels |-> <<"rollPSD", "phasePSD", "spatial_frequency">>]
    ELSE IF item = "Timing"
    THEN [variant |-> item, channels |-> <<"timingPSD", "spatial_frequency">>]
    ELSE IF item = "WetTroposphere" THEN [variant |-> item, channels |-> <<>>]
    ELSE NoModel

\* An else branch that drops the unknown name instead of raising.
RECURSIVE BuildGenerators_SkipUnknown(_, _)
BuildGenerators_SkipUnknown(items, acc) ==
    IF items = <<>> THEN [status |-> "ok", generators |-> acc, item |-> NoName]
    ELSE IF NewModel(Head(items)) = NoModel
         THEN BuildGenerators_SkipUnknown(Tail(items), acc)
         ELSE BuildGenerators_SkipUnknown(Tail(items), Append(acc, NewModel(Head(items))))

\* The for loop of __init__ over parameters.noise: acc is self.generators so
\* far; the loop ends "ok", or "raised" with the name the ValueError quotes.
RECURSIVE BuildGenerators(_, _)
BuildGenerators(items, acc) ==
    IF items = <<>> THEN [status |-> "ok", generators |-> acc, item |-> NoName]
    ELSE IF NewModel(Head(items)) = NoModel
         THEN [status |-> "raised", generators |-> acc, item |-> Head(items)]
         ELSE BuildGenerators(Tail(items), Append(acc, NewModel(Head(items))))

\* parameters.error_spectrum: not set, or the path of a spectrum file that
\* utils.read_file_instr loads with its channels.
Spectra == {"None", "file"}

\* __init__ as a whole: `assert parameters.error_spectrum is not None` ahead
\* of the loop, then the loop, whose else branch raises ValueError.
NewGenerator(spectrum, items) ==
    IF spectrum = "None"
    THEN [status |-> "raised", exception |-> "AssertionError",
          generators |-> <<>>, item |-> NoName]
    ELSE LET built == BuildGenerators(items, <<>>)
         IN  [status |-> built.status,
              exception |-> IF built.status = "raised" THEN "ValueError" ELSE NoName,
              generators |-> built.generators, item |-> built.item]

(***************************************************************************)
(* Generator.generate                                                      *)
(***************************************************************************)
\* A short-circuit that forgets the empty along-track array.
ShortCircuit_NoLengthTest(gens, n) == gens = <<>>

\* A short-circuit that forgets the empty model list.
ShortCircuit_NoModelTest(gens, n) == n = 0

\* `not self.generators or x_al.shape[0] == 0`
ShortCircuit(gens, n) == gens = <<>> \/ n = 0

NoArgs == <<"-">>

\* A Karin branch that forgets the cycle number.
BindArgs_KarinShort(variant) ==
    IF variant = "Altimeter" THEN <<"x_al">>
    ELSE IF variant = "BaselineDilation" THEN <<"x_al", "x_ac">>
    ELSE IF variant = "Karin" THEN <<"x_al", "x_ac", "curvilinear_distance">>
    ELSE IF variant = "RollPhase" THEN <<"x_al", "x_ac">>
    ELSE IF variant = "Timing" THEN <<"x_al", "x_ac">>
    ELSE IF variant = "WetTroposphere" THEN <<"x_al", "x_ac">>
    ELSE NoArgs

\* The isinstance chain of generate: the arguments of client.submit after
\* item.generate, in order; NoArgs when no branch matches (nothing submitted).
BindArgs(variant) ==
    IF variant = "Altimeter" THEN <<"x_al">>
    ELSE IF variant = "BaselineDilation" THEN <<"x_al", "x_ac">>
    ELSE IF variant = "Karin"
    THEN <<"x_al", "x_ac", "curvilinear_distance", "cycle_number">>
    ELSE IF variant = "RollPhase" THEN <<"x_al", "x_ac">>
    ELSE IF variant = "Timing" THEN <<"x_al", "x_ac">>
    ELSE IF variant = "WetTroposphere" THEN <<"x_al", "x_ac">>
    ELSE NoArgs

\* An update that replaces the aggregate by the last mapping.
Merge_Replace(res, upd) == upd

\* dict.update: keys of upd are inserted, overwriting equal keys of res.
Merge(res, upd) ==
    [f \in (DOMAIN res) \cup (DOMAIN upd) |->
        IF f \in DOMAIN upd THEN upd[f] ELSE res[f]]

\* A drain that swallows the failure of a unit and merges nothing for it.
FutureResult_Swallow(gens, fut) ==
    IF fut.status = "error" THEN [raised |-> FALSE, value |-> EmptyMap]
    ELSE [raised |-> FALSE, value |-> Output(gens, fut.item)]

\* future.result(): re-raises the unit's exception, or gives its mapping.
FutureResult(gens, fut) ==
    IF fut.status = "error" THEN [raised |-> TRUE, value |-> EmptyMap]
    ELSE [raised |-> FALSE, value |-> Output(gens, fut.item)]

\* A drain loop that stops at the first completion.
Exhausted_First(yielded_now, futs) == yielded_now >= 1

\* as_completed is exhausted once it has yielded every future it was given.
Exhausted(yielded_now, futs) == yielded_now = Len(futs)

\* A failure handler that submits the failed unit again and keeps draining.
OnFailure_Retry(futs, f) ==
    [pc |-> "draining",
     futures |-> Append(futs, [item |-> futs[f].item, args |-> futs[f].args,
                               status |-> "pending"])]

\* The exception of future.result() leaves generate: nothing is submitted.
OnFailure(futs, f) == [pc |-> "raised", futures |-> futs]

\* An aggregate kept on the Generator and carried into the next call.
NewAggregate_Keep(previous) == previous

\* `result = {}`: every call starts from a new empty dict, whatever the
\* previous call left.
NewAggregate(previous) == EmptyMap

VARIABLES
    error_spectrum, \* parameters.error_spectrum: "None" or the path of a file
    noise,          \* parameters.noise
    ctor,           \* "new", or how __init__ ended: "ok" / "raised"
    exception,      \* the class of the exception __init__ raised, if any
    error,          \* the name quoted by the ValueError of __init__
    generators,     \* self.generators
    pc,             \* position of generate: idle/submitting/draining/returned/raised
    x_al,           \* x_al.shape[0] of the current call
    idx,            \* position of the submission loop in self.generators
    futures,        \* the list futures: item, bound arguments, status
    completed,      \* the futures in the order the workers completed them
    yielded,        \* how many completions as_completed has yielded
    result,         \* the local aggregate of the current call
    ret,            \* what the caller got: {} nothing, {m} the mapping m
    client_opened,  \* worker_client() was entered during the current call
    submissions,    \* client.submit calls of the current call
    inserts         \* per field name, insertions into result in the current call

\* History of the calls made on the Generator, kept when calls are counted.
VARIABLES
    calls,          \* generate calls entered so far
    earlier         \* field names merged into the aggregate of earlier calls

genVars == <<error_spectrum, noise, ctor, exception, error, generators, pc,
             x_al, idx, futures, completed,
             yielded, result, ret, client_opened, submissions, inserts>>

seqVars == <<calls, earlier>>

\* Two generate calls running at once on one Generator: per call, the
\* position and the locals of its frame (futures, completion order, yielded
\* count, loop index, result) and what its caller got.
VARIABLES
    conc

concVars == <<conc>>

\* logbook.setup_worker_logging in one worker process.
VARIABLES
    loggers,        \* per logger name: handlers, level, propagate
    loggers0,       \* the loggers as they were before the first call
    lock,           \* LOCK: owning thread (0: none) and recursion count
    threads,        \* per thread: position in setup_worker_logging, its
                    \* loop index, the level of its logging_server, calls done
    setup           \* logbook.setup in the main thread: its position, its
                    \* level, the calls made so far

logVars == <<loggers, loggers0, lock, threads, setup>>

\* LogRecordSocketReceiver.handle_stream on one incoming connection.
VARIABLES
    records,        \* the payloads the peer means to send, in order
    wire,           \* their bytes on the wire: length prefix, payload, ...
    arrived,        \* bytes of wire received by the IOStream so far
    closed,         \* the stream is closed
    consumed,       \* bytes handed to handle_stream by read_bytes
    hpc,            \* handle_stream awaits a "header" or a "payload", has left
                    \* its loop ("done") or was left by an exception ("raised")
    slen,           \* the length unpacked from the last prefix
    dispatched,     \* the records given to handle_log_record, in order
    stream_error,   \* the class of the exception that left handle_stream
    logname,        \* self.logname of the receiver: None or a str
    record_logger   \* the logger handle_log_record gets from getLogger:
                    \* its attribute disabled and the result of its filters

streamVars == <<records, wire, arrived, closed, consumed, hpc, slen, dispatched,
                stream_error, logname, record_logger>>

\* One product_specification.Nadir / Swath object.
VARIABLES
    kind,           \* "none", or the class constructed: "Nadir" / "Swath"
    standalone,     \* self.standalone: "True", "False" or "None"
    num_lines,      \* self.num_lines (track.time.size)
    data_vars,      \* self.data_vars: the names of the arrays, in order
    encoding,       \* the keys of self.encoding
    ssh_calls,      \* ssh arrays registered so far
    written,        \* how the last to_netcdf ended: "-", "ok", or the
                    \* exception: "KeyError", "IndexError"
    complete,       \* complete_product of the last to_netcdf
    lookup          \* the names to_netcdf looked up for longitude, latitude

nadirVars == <<kind, standalone, num_lines, data_vars, encoding, ssh_calls,
               written, complete, lookup>>

\* The state of the other components, which the Generator does not touch.
extVars == <<concVars, logVars, streamVars, nadirVars>>

\* What the concurrent calls, the logging setup, and the log stream leave
\* alone.
notConc == <<genVars, seqVars, logVars, streamVars, nadirVars>>

notLog == <<genVars, seqVars, concVars, streamVars, nadirVars>>

notStream == <<genVars, seqVars, concVars, logVars, nadirVars>>

notNadir == <<genVars, seqVars, concVars, logVars, streamVars>>

vars == <<genVars, seqVars, extVars>>

SeqIdle == calls = 0 /\ earlier = {}

\* The two callers of the concurrent specification.
Callers == {1, 2}

ConcIdleCall ==
    [pc |-> "idle", idx |-> 1, futures |-> <<>>, completed |-> <<>>,
     yielded |-> 0, result |-> EmptyMap, ret |-> {}]

ConcIdle == conc = [c \in Callers |-> ConcIdleCall]

\* `for name in ["distributed", pathlib.Path(__file__).absolute().parent.name]`
LoggerNames == <<"distributed", "swot_simulator">>

Threads == 1..LogThreads

\* logging.NOTSET, logging.DEBUG, logging.INFO
LogLevels == {0, 10, 20}

LogIdleThread == [pc |-> "idle", i |-> 1, level |-> 0, done |-> 0]

LogIdleSetup ==
    [pc |-> "idle", i |-> 1, stream |-> "stream", level |-> 0, calls |-> 0]

LogIdle ==
    /\ loggers = [n \in Range(LoggerNames) |->
                    [handlers |-> <<>>, level |-> 0, propagate |-> TRUE]]
    /\ loggers0 = loggers
    /\ lock = [owner |-> 0, count |-> 0]
    /\ threads = [t \in {} |-> LogIdleThread]
    /\ setup = LogIdleSetup

StreamIdle ==
    /\ records = <<>>
    /\ wire = <<>>
    /\ arrived = 0
    /\ closed = FALSE
    /\ consumed = 0
    /\ hpc = "header"
    /\ slen = 0
    /\ dispatched = <<>>
    /\ stream_error = NoName
    /\ logname = [t |-> "none", v |-> <<>>]
    /\ record_logger = [disabled |-> FALSE, filter |-> TRUE]

NadirIdle ==
    /\ kind = "none"
    /\ standalone = "False"
    /\ num_lines = 0
    /\ data_vars = <<>>
    /\ encoding = {}
    /\ ssh_calls = 0
    /\ written = "-"
    /\ complete = FALSE
    /\ lookup = <<>>

ExtIdle == ConcIdle /\ LogIdle /\ StreamIdle /\ NadirIdle

\* No Generator exists: the state the other components start from.
GenIdle ==
    /\ error_spectrum = "None"
    /\ noise = <<>>
    /\ ctor = "new"
    /\ exception = NoName
    /\ error = NoName
    /\ generators = <<>>
    /\ pc = "idle"
    /\ x_al = 0
    /\ idx = 1
    /\ futures = <<>>
    /\ completed = <<>>
    /\ yielded = 0
    /\ result = EmptyMap
    /\ ret = {}
    /\ client_opened = FALSE
    /\ submissions = 0
    /\ inserts = [f \in AllFields |-> 0]
    /\ calls = 0
    /\ earlier = {}

NoInserts == [f \in AllFields |-> 0]

Init ==
    /\ error_spectrum \in Spectra
    /\ noise \in NoiseLists
    /\ ctor = "new"
    /\ exception = NoName
    /\ error = NoName
    /\ generators = <<>>
    /\ pc = "idle"
    /\ x_al = 0
    /\ idx = 1
    /\ futures = <<>>
    /\ completed = <<>>
    /\ yielded = 0
    /\ result = EmptyMap
    /\ ret = {}
    /\ client_opened = FALSE
    /\ submissions = 0
    /\ inserts = NoInserts
    /\ SeqIdle
    /\ ExtIdle

\* Generator(parameters)
Construct ==
    /\ ctor = "new"
    /\ LET built == NewGenerator(error_spectrum, noise)
       IN  /\ ctor' = built.status
           /\ exception' = built.exception
           /\ error' = built.item
           /\ generators' = built.generators
    /\ UNCHANGED <<error_spectrum, noise, pc, x_al, idx, futures, completed, yielded, result,
                   ret, client_opened, submissions, inserts>>
    /\ UNCHANGED <<seqVars, extVars>>

\* generate(...) is entered on a constructed Generator: the aggregate starts
\* empty; the short-circuit returns it, otherwise the worker client is opened.
EnterGenerate ==
    /\ ctor = "ok"
    /\ pc \in {"idle", "returned", "raised"}
    /\ \E n \in 0..MaxLen :
        /\ x_al' = n
        /\ result' = NewAggregate(result)
        /\ futures' = <<>>
        /\ completed' = <<>>
        /\ yielded' = 0
        /\ idx' = 1
        /\ submissions' = 0
        /\ inserts' = NoInserts
        /\ IF ShortCircuit(generators, n)
           THEN /\ pc' = "returned"
                /\ ret' = {EmptyMap}
                /\ client_opened' = FALSE
           ELSE /\ pc' = "submitting"
                /\ ret' = {}
                /\ client_opened' = TRUE
    /\ UNCHANGED <<error_spectrum, noise, ctor, exception, error, generators, extVars>>

Call == EnterGenerate /\ UNCHANGED seqVars

\* The same entry, with the history of the calls recorded.
CountedCall ==
    /\ calls < MaxCalls
    /\ EnterGenerate
    /\ calls' = calls + 1
    /\ earlier' = earlier \cup DOMAIN result

\* One iteration of `for item in self.generators`; after the last one the
\* loop is left and as_completed(futures) starts.
Submit ==
    /\ pc = "submitting"
    /\ idx <= Len(generators)
    /\ LET args == BindArgs(generators[idx].variant)
       IN  IF args = NoArgs
           THEN UNCHANGED <<futures, submissions>>
           ELSE /\ futures' = Append(futures, [item |-> idx, args |-> args,
                                               status |-> "pending"])
                /\ submissions' = submissions + 1
    /\ idx' = idx + 1
    /\ pc' = IF idx' > Len(generators) THEN "draining" ELSE "submitting"
    /\ UNCHANGED <<error_spectrum, noise, ctor, exception, error, generators, x_al, completed, yielded,
                   result, ret, client_opened, inserts>>
    /\ UNCHANGED <<seqVars, extVars>>

\* A worker ends a submitted unit, with its mapping or with an exception.
\* Units are followed while the call that holds their futures is running.
Complete(f, outcome) ==
    /\ pc \in {"submitting", "draining"}
    /\ f \in 1..Len(futures)
    /\ futures[f].status = "pending"
    /\ futures' = [futures EXCEPT ![f].status = outcome]
    /\ completed' = Append(completed, f)
    /\ UNCHANGED <<error_spectrum, noise, ctor, exception, error, generators, pc, x_al, idx, yielded,
                   result, ret, client_opened, submissions, inserts>>
    /\ UNCHANGED <<seqVars, extVars>>

Finish == \E f \in 1..Len(futures) : Complete(f, "finished")

Fail == \E f \in 1..Len(futures) : Complete(f, "error")

\* One iteration of `for future in as_completed(futures)`: the next completed
\* future is taken and result.update(future.result()) runs; when the iterator
\* is exhausted the client is left and result is returned, at once when
\* nothing was submitted.
Drain ==
    /\ pc = "draining"
    /\ IF futures = <<>>
       THEN /\ pc' = "returned"
            /\ ret' = {result}
            /\ UNCHANGED <<futures, yielded, result, inserts>>
       ELSE /\ yielded < Len(completed)
            /\ LET f   == completed[yielded + 1]
                   got == FutureResult(generators, futures[f])
               IN  IF got.raised
                   THEN /\ pc' = OnFailure(futures, f).pc
                        /\ futures' = OnFailure(futures, f).futures
                        /\ yielded' = yielded + 1
                        /\ UNCHANGED <<result, ret, inserts>>
                   ELSE /\ result' = Merge(result, got.value)
                        /\ inserts' = [k \in AllFields |->
                                         IF k \in DOMAIN got.value
                                         THEN inserts[k] + 1
                                         ELSE inserts[k]]
                        /\ yielded' = yielded + 1
                        /\ futures' = futures
                        /\ IF Exhausted(yielded', futures)
                           THEN pc' = "returned" /\ ret' = {result'}
                           ELSE pc' = "draining" /\ ret' = ret
    /\ UNCHANGED <<error_spectrum, noise, ctor, exception, error, generators, x_al, idx, completed,
                   client_opened, submissions>>
    /\ UNCHANGED <<seqVars, extVars>>

Next == Construct \/ Call \/ Submit \/ Finish \/ Fail \/ Drain

Spec == Init /\ [][Next]_vars

\* The orchestrator keeps running and every submitted unit ends.
FairSpec ==
    /\ Spec
    /\ WF_vars(Submit)
    /\ WF_vars(Drain)
    /\ WF_vars(Finish \/ Fail)

(***************************************************************************)
(* Two concurrent generate calls on one constructed Generator.  The model  *)
(* instances keep no state between calls, so what a unit returns depends   *)
(* on the request of the call that submitted it only.                      *)
(***************************************************************************)
\* The classes configured for the shared Generator.
ConcNames == {"Altimeter", "RollPhase"}

ConcNoiseLists == SeqsUpTo(ConcNames, MaxConcNoise)

\* The mapping a unit of call c returns: each value is marked with the
\* request it was computed from (the call) and the instance that computed it.
ConcOutput(c, m) == [k \in DOMAIN m |-> <<c, m[k]>>]

\* One aggregate kept on the Generator and shared by all calls.
AggregateOwner_Shared(c) == CHOOSE o \in Callers : \A d \in Callers : o <= d

\* result, futures and the loop variables are locals of generate: each call
\* reads and writes the frame of its own invocation.
AggregateOwner(c) == c

ConcInit ==
    /\ error_spectrum = "file"
    /\ noise \in ConcNoiseLists
    /\ ctor = "ok"
    /\ exception = NoName
    /\ error = NoName
    /\ generators = NewGenerator(error_spectrum, noise).generators
    /\ pc = "idle"
    /\ x_al = 0
    /\ idx = 1
    /\ futures = <<>>
    /\ completed = <<>>
    /\ yielded = 0
    /\ result = EmptyMap
    /\ ret = {}
    /\ client_opened = FALSE
    /\ submissions = 0
    /\ inserts = NoInserts
    /\ SeqIdle
    /\ ExtIdle

\* Caller c enters generate (lines 74-79) with its own request.
ConcCall ==
    \E c \in Callers, n \in 0..MaxLen :
        /\ conc[c].pc \in {"idle", "returned", "raised"}
        /\ LET o     == AggregateOwner(c)
               fresh == NewAggregate(conc[o].result)
           IN  conc' = [conc EXCEPT
                   ![o].result = fresh,
                   ![c].futures = <<>>,
                   ![c].completed = <<>>,
                   ![c].yielded = 0,
                   ![c].idx = 1,
                   ![c].pc = IF ShortCircuit(generators, n) THEN "returned"
                             ELSE "submitting",
                   ![c].ret = IF ShortCircuit(generators, n) THEN {fresh} ELSE {}]
        /\ UNCHANGED notConc

\* One iteration of the submission loop of caller c.
ConcSubmit ==
    \E c \in Callers :
        /\ conc[c].pc = "submitting"
        /\ conc[c].idx <= Len(generators)
        /\ LET args == BindArgs(generators[conc[c].idx].variant)
               futs == IF args = NoArgs THEN conc[c].futures
                       ELSE Append(conc[c].futures,
                                   [item |-> conc[c].idx, args |-> args,
                                    status |-> "pending"])
           IN  conc' = [conc EXCEPT
                   ![c].futures = futs,
                   ![c].idx = @ + 1,
                   ![c].pc = IF conc[c].idx + 1 > Len(generators)
                             THEN "draining" ELSE "submitting"]
        /\ UNCHANGED notConc

\* A worker ends a unit submitted by caller c.
ConcComplete(c, f, outcome) ==
    /\ conc[c].pc \in {"submitting", "draining"}
    /\ conc[c].futures[f].status = "pending"
    /\ conc' = [conc EXCEPT
            ![c].futures[f].status = outcome,
            ![c].completed = Append(@, f)]
    /\ UNCHANGED notConc

ConcFinish ==
    \E c \in Callers : \E f \in 1..Len(conc[c].futures) : ConcComplete(c, f, "finished")

ConcFail ==
    \E c \in Callers : \E f \in 1..Len(conc[c].futures) : ConcComplete(c, f, "error")

\* One iteration of the drain loop of caller c, and its return, at once
\* when nothing was submitted.
ConcDrain ==
    \E c \in Callers :
        /\ conc[c].pc = "draining"
        /\ IF conc[c].futures = <<>>
           THEN conc' = [conc EXCEPT
                    ![c].pc = "returned",
                    ![c].ret = {conc[AggregateOwner(c)].result}]
           ELSE /\ conc[c].yielded < Len(conc[c].completed)
                /\ LET f      == conc[c].completed[conc[c].yielded + 1]
                       got    == FutureResult(generators, conc[c].futures[f])
                       o      == AggregateOwner(c)
                       merged == Merge(conc[o].result, ConcOutput(c, got.value))
                   IN  IF got.raised
                       THEN conc' = [conc EXCEPT
                                ![c].pc = OnFailure(conc[c].futures, f).pc,
                                ![c].futures = OnFailure(conc[c].futures, f).futures,
                                ![c].yielded = @ + 1]
                       ELSE conc' = [conc EXCEPT
                                ![o].result = merged,
                                ![c].yielded = @ + 1,
                                ![c].pc = IF Exhausted(conc[c].yielded + 1,
                                                       conc[c].futures)
                                          THEN "returned" ELSE "draining",
                                ![c].ret = IF Exhausted(conc[c].yielded + 1,
                                                        conc[c].futures)
                                           THEN {merged} ELSE @]
        /\ UNCHANGED notConc

ConcNext == ConcCall \/ ConcSubmit \/ ConcFinish \/ ConcFail \/ ConcDrain

ConcSpec == ConcInit /\ [][ConcNext]_vars

(***************************************************************************)
(* logbook.setup_worker_logging called from the threads of a worker.       *)
(***************************************************************************)
\* A setup that takes no lock.
CanAcquire_NoLock(lk, t) == TRUE

\* threading.RLock: free, or already held by the calling thread.
CanAcquire(lk, t) == lk.owner = 0 \/ lk.owner = t

\* `logger.propagate = True`, the first write of _config_logger.
SetPropagate(logger) == [logger EXCEPT !.propagate = TRUE]

\* The stream given to _config_logger: a text stream, or a logging.Handler.
\* GivenHandler is one Handler object, the same in every call that gets it;
\* "SocketHandler" and "StreamHandler" name the handlers a call creates, each
\* a new object that no logger holds.
TextStream == "stream"

GivenHandler == "Handler"

Streams == {TextStream, GivenHandler}

\* `handler = logging.StreamHandler(stream) if not isinstance(stream,
\* logging.Handler) else stream`
HandlerOf(stream) == IF stream = TextStream THEN "StreamHandler" ELSE stream

\* `logger.addHandler(handler)`, the second write of _config_logger: the
\* handler is appended unless the logger holds that object already.
AddHandler(logger, handler) ==
    IF handler = GivenHandler /\ handler \in Range(logger.handlers)
    THEN logger
    ELSE [logger EXCEPT !.handlers = Append(@, handler)]

\* `if level: logger.setLevel(level)`, the last write of _config_logger.
SetLevel(logger, level) ==
    IF level # 0 THEN [logger EXCEPT !.level = level] ELSE logger

\* A logger before the first call: as logging.getLogger creates it, without
\* a handler and at level NOTSET, or configured earlier, with a handler (the
\* Handler object a later setup may be given again) and at level INFO;
\* propagate either way.
InitialLoggers ==
    [handlers : {<<>>}, level : {0}, propagate : BOOLEAN] \cup
    [handlers : {<<GivenHandler>>}, level : {20}, propagate : BOOLEAN]

LogInit ==
    /\ GenIdle
    /\ ConcIdle
    /\ StreamIdle
    /\ NadirIdle
    /\ loggers \in [Range(LoggerNames) -> InitialLoggers]
    /\ loggers0 = loggers
    /\ lock = [owner |-> 0, count |-> 0]
    /\ threads = [t \in Threads |-> LogIdleThread]
    /\ setup = LogIdleSetup

\* `with LOCK:` is entered by a thread calling setup_worker_logging.
LogEnter ==
    \E t \in Threads, level \in LogLevels :
        /\ threads[t].pc = "idle"
        /\ CanAcquire(lock, t)
        /\ lock' = [owner |-> t, count |-> lock.count + 1]
        /\ threads' = [threads EXCEPT ![t].pc = "check", ![t].i = 1,
                                      ![t].level = level]
        /\ UNCHANGED <<loggers, loggers0, setup, notLog>>

\* `if logger.handlers: continue` for the next name of the loop, and the
\* SocketHandler is created when the logger has none; past the last name the
\* lock is released and the call returns.
LogCheck ==
    \E t \in Threads :
        /\ threads[t].pc = "check"
        /\ IF threads[t].i > Len(LoggerNames)
           THEN /\ threads' = [threads EXCEPT ![t] =
                                  [LogIdleThread EXCEPT !.done = 1]]
                /\ lock' = IF lock.count <= 1 THEN [owner |-> 0, count |-> 0]
                           ELSE [lock EXCEPT !.count = @ - 1]
           ELSE /\ threads' = IF loggers[LoggerNames[threads[t].i]].handlers # <<>>
                              THEN [threads EXCEPT ![t].i = @ + 1]
                              ELSE [threads EXCEPT ![t].pc = "propagate"]
                /\ lock' = lock
        /\ UNCHANGED <<loggers, loggers0, setup, notLog>>

\* _config_logger called by the worker: `logger.propagate = True`.
LogPropagate ==
    \E t \in Threads :
        /\ threads[t].pc = "propagate"
        /\ loggers' = [loggers EXCEPT ![LoggerNames[threads[t].i]] =
                          SetPropagate(@)]
        /\ threads' = [threads EXCEPT ![t].pc = "add"]
        /\ UNCHANGED <<loggers0, lock, setup, notLog>>

\* _config_logger called by the worker: `logger.addHandler(handler)` with
\* the SocketHandler.
LogAdd ==
    \E t \in Threads :
        /\ threads[t].pc = "add"
        /\ loggers' = [loggers EXCEPT ![LoggerNames[threads[t].i]] =
                          AddHandler(@, HandlerOf("SocketHandler"))]
        /\ threads' = [threads EXCEPT ![t].pc = "level"]
        /\ UNCHANGED <<loggers0, lock, setup, notLog>>

\* _config_logger called by the worker: `if level: logger.setLevel(level)`
\* with logging_server[2], and the loop goes to the next name.
LogSetLevel ==
    \E t \in Threads :
        /\ threads[t].pc = "level"
        /\ loggers' = [loggers EXCEPT ![LoggerNames[threads[t].i]] =
                          SetLevel(@, threads[t].level)]
        /\ threads' = [threads EXCEPT ![t].pc = "check", ![t].i = @ + 1]
        /\ UNCHANGED <<loggers0, lock, setup, notLog>>

\* logbook.setup(stream, debug), which takes no lock: the level is chosen
\* and _config_logger is called for "distributed".
LogSetup ==
    /\ setup.pc = "idle"
    /\ setup.calls < MaxSetups
    /\ \E stream \in Streams, debug \in BOOLEAN :
        setup' = [pc |-> "propagate", i |-> 1, stream |-> stream,
                  level |-> IF debug THEN 10 ELSE 20,
                  calls |-> setup.calls + 1]
    /\ UNCHANGED <<loggers, loggers0, lock, threads, notLog>>

\* _config_logger called by setup: `logger.propagate = True`.
LogSetupPropagate ==
    /\ setup.pc = "propagate"
    /\ loggers' = [loggers EXCEPT ![LoggerNames[setup.i]] = SetPropagate(@)]
    /\ setup' = [setup EXCEPT !.pc = "add"]
    /\ UNCHANGED <<loggers0, lock, threads, notLog>>

\* _config_logger called by setup: `logger.addHandler(handler)` with a new
\* StreamHandler of the text stream, or with the Handler given as stream.
LogSetupAdd ==
    /\ setup.pc = "add"
    /\ loggers' = [loggers EXCEPT ![LoggerNames[setup.i]] =
                      AddHandler(@, HandlerOf(setup.stream))]
    /\ setup' = [setup EXCEPT !.pc = "level"]
    /\ UNCHANGED <<loggers0, lock, threads, notLog>>

\* _config_logger called by setup: `if level: logger.setLevel(level)`; the
\* package logger follows "distributed", and setup returns after it.
LogSetupSetLevel ==
    /\ setup.pc = "level"
    /\ loggers' = [loggers EXCEPT ![LoggerNames[setup.i]] =
                      SetLevel(@, setup.level)]
    /\ setup' = IF setup.i < Len(LoggerNames)
                THEN [setup EXCEPT !.pc = "propagate", !.i = @ + 1]
                ELSE [LogIdleSetup EXCEPT !.calls = setup.calls]
    /\ UNCHANGED <<loggers0, lock, threads, notLog>>

LogNext ==
    \/ LogEnter
    \/ LogCheck
    \/ LogPropagate
    \/ LogAdd
    \/ LogSetLevel
    \/ LogSetup
    \/ LogSetupPropagate
    \/ LogSetupAdd
    \/ LogSetupSetLevel

LogSpec == LogInit /\ [][LogNext]_vars

(***************************************************************************)
(* LogRecordSocketReceiver.handle_stream.  The peer writes, per record,    *)
(* the length of the payload as 4 bytes, most significant first, then the  *)
(* payload; a SocketHandler sends the pickle of the record's dict.         *)
(***************************************************************************)
\* The opcodes of pickle that the unpickler below interprets.
OpStop == 46

OpNone == 78

OpNewTrue == 136

OpNewFalse == 137

OpEmptyDict == 125

OpEmptyList == 93

OpEmptyTuple == 41

OpBinInt1 == 75

OpBinInt2 == 77

OpShortBinUnicode == 140

OpBinUnicode == 88

OpMark == 40

OpSetItem == 115

OpSetItems == 117

OpAppend == 97

OpAppends == 101

OpTuple == 116

OpTuple1 == 133

OpTuple2 == 134

OpTuple3 == 135

OpPop == 48

OpMemoize == 148

OpBinPut == 113

OpProto == 128

OpFrame == 149

\* The other opcodes of pickle (floats, long ints, bytes, memo reads,
\* globals and object construction), which the unpickler below does not
\* interpret.
OtherOpcodes ==
    {49, 50, 66, 67, 70, 71, 73, 74, 76, 80, 81, 82, 83, 84, 85, 86, 98, 99,
     100, 103, 104, 105, 106, 108, 111, 112, 114, 129, 130, 131, 132, 138,
     139, 141, 142, 143, 144, 145, 146, 147, 150, 151, 152}

\* pickle.HIGHEST_PROTOCOL
HighestProtocol == 5

\* "levelno" and "name" in ASCII.
LevelnoKey == <<108, 101, 118, 101, 108, 110, 111>>

NameKey == <<110, 97, 109, 101>>

\* pickle.dumps({"levelno": 20}, 1), the protocol of a SocketHandler.
RecordPickle1 ==
    <<OpEmptyDict, OpBinPut, 0, OpBinUnicode, 7, 0, 0, 0>> \o LevelnoKey \o
    <<OpBinPut, 1, OpBinInt1, 20, OpSetItem, OpStop>>

\* pickle.dumps({"levelno": 20}), protocol 4.
RecordPickle4 ==
    <<OpProto, 4, OpFrame, 16, 0, 0, 0, 0, 0, 0, 0, OpEmptyDict, OpMemoize,
      OpShortBinUnicode, 7>> \o LevelnoKey \o
    <<OpMemoize, OpBinInt1, 20, OpSetItem, OpStop>>

\* The shortest pickle of {"name": 1, "levelno": 20}, a record whose name
\* is no str.
NamedPickle ==
    <<OpEmptyDict, OpShortBinUnicode, 4>> \o NameKey \o
    <<OpBinInt1, 1, OpSetItem, OpShortBinUnicode, 7>> \o LevelnoKey \o
    <<OpBinInt1, 20, OpSetItem, OpStop>>

\* The payloads explored, shortest first: no byte at all, the pickle of
\* None, the pickle of {}, the two pickles of a record's dict, and the pickle
\* of a record with a name.
PayloadSamples ==
    {<<>>, <<OpNone, OpStop>>, <<OpEmptyDict, OpStop>>, RecordPickle1,
     NamedPickle, RecordPickle4}

Payloads == {p \in PayloadSamples : Len(p) <= MaxPayload}

\* struct.pack('>L', n)
Pack(n) ==
    <<(n \div 16777216) % 256, (n \div 65536) % 256, (n \div 256) % 256, n % 256>>

RECURSIVE Frames(_)
Frames(recs) ==
    IF recs = <<>> THEN <<>>
    ELSE Pack(Len(Head(recs))) \o Head(recs) \o Frames(Tail(recs))

\* A prefix read least significant byte first.
Unpack_LittleEndian(chunk) ==
    chunk[1] + 256 * chunk[2] + 65536 * chunk[3] + 16777216 * chunk[4]

\* struct.unpack('>L', chunk)[0]
Unpack(chunk) ==
    16777216 * chunk[1] + 65536 * chunk[2] + 256 * chunk[3] + chunk[4]

\* The Python values the opcodes build: None, a bool, an int, a str (its
\* UTF-8 bytes), a dict (its items, in insertion order), a list, a tuple.
PyNone == [t |-> "none", v |-> <<>>]

PyBool(n) == [t |-> "bool", v |-> <<n>>]

PyInt(n) == [t |-> "int", v |-> <<n>>]

PyStr(bytes) == [t |-> "str", v |-> bytes]

PyDict(items) == [t |-> "dict", v |-> items]

PyList(items) == [t |-> "list", v |-> items]

PyTuple(items) == [t |-> "tuple", v |-> items]

\* a == b, for the values that can be keys: True equals 1, tuples compare
\* item by item.
RECURSIVE PyEq(_, _)
PyEq(a, b) ==
    IF a.t \in {"int", "bool"} /\ b.t \in {"int", "bool"} THEN a.v = b.v
    ELSE IF a.t # b.t THEN FALSE
    ELSE IF a.t = "tuple"
    THEN /\ Len(a.v) = Len(b.v)
         /\ \A k \in 1..Len(a.v) : PyEq(a.v[k], b.v[k])
    ELSE a.v = b.v

\* hash(value) is defined.
RECURSIVE Hashable(_)
Hashable(value) ==
    IF value.t \in {"dict", "list"} THEN FALSE
    ELSE IF value.t = "tuple" THEN \A k \in 1..Len(value.v) : Hashable(value.v[k])
    ELSE TRUE

\* d[key] = value on the items of a dict: an equal key keeps its place and
\* its first spelling.
SetItem(items, key, value) ==
    IF \E i \in 1..Len(items) : PyEq(items[i][1], key)
    THEN [i \in 1..Len(items) |->
            IF PyEq(items[i][1], key) THEN <<items[i][1], value>> ELSE items[i]]
    ELSE Append(items, <<key, value>>)

Returned(value) == [status |-> "ok", exception |-> NoName, value |-> value]

Raised(class) == [status |-> "raised", exception |-> class, value |-> PyNone]

\* The payload uses an opcode that is not interpreted here.
NotInterpreted == [status |-> "unmodelled", exception |-> NoName, value |-> PyNone]

\* PyObject_SetItem(container, key, value) of SETITEM and SETITEMS.
ObjSetItem(container, key, value) ==
    IF container.t = "dict"
    THEN IF Hashable(key) THEN Returned(PyDict(SetItem(container.v, key, value)))
         ELSE Raised("TypeError")
    ELSE IF container.t = "list"
    THEN IF key.t \notin {"int", "bool"} THEN Raised("TypeError")
         ELSE IF key.v[1] >= Len(container.v) THEN Raised("IndexError")
         ELSE Returned(PyList([container.v EXCEPT ![key.v[1] + 1] = value]))
    ELSE Raised("TypeError")

\* The key/value pairs from position j of the stack on are set on container.
RECURSIVE SetPairs(_, _, _)
SetPairs(container, stack, j) ==
    IF j > Len(stack) THEN Returned(container)
    ELSE LET set == ObjSetItem(container, stack[j], stack[j + 1])
         IN  IF set.status = "ok" THEN SetPairs(set.value, stack, j + 2) ELSE set

\* do_setitems: the items above position x of the stack are set on the
\* object at x; the result is the new stack.
DoSetItems(stack, x, fence) ==
    IF x > Len(stack) \/ x <= fence THEN Raised("UnpicklingError")
    ELSE IF Len(stack) = x THEN Returned(stack)
    ELSE IF (Len(stack) - x) % 2 # 0 THEN Raised("UnpicklingError")
    ELSE LET set == SetPairs(stack[x], stack, x + 1)
         IN  IF set.status = "ok"
             THEN Returned(Append(SubSeq(stack, 1, x - 1), set.value))
             ELSE set

\* do_append: the items above position x are appended to the list at x.
DoAppend(stack, x, fence) ==
    IF x > Len(stack) \/ x <= fence THEN Raised("UnpicklingError")
    ELSE IF Len(stack) = x THEN Returned(stack)
    ELSE IF stack[x].t # "list" THEN Raised("AttributeError")
    ELSE Returned(Append(SubSeq(stack, 1, x - 1),
                         PyList(stack[x].v \o SubSeq(stack, x + 1, Len(stack)))))

\* Pdata_poptuple: the items above position start become one tuple.
PopTuple(stack, start, fence) ==
    IF start < fence THEN Raised("UnpicklingError")
    ELSE Returned(Append(SubSeq(stack, 1, start),
                         PyTuple(SubSeq(stack, start + 1, Len(stack)))))

\* The fence of the stack: the position of the last MARK, 0 without one.
Fence(marks) == IF marks = <<>> THEN 0 ELSE marks[Len(marks)]

\* A little-endian length of 4 or 8 bytes; a length of 2^24 or more stands
\* for any length beyond what a payload holds.
ArgLength(arg) ==
    IF \E k \in 4..Len(arg) : arg[k] # 0 THEN 16777216
    ELSE arg[1] + 256 * arg[2] + 65536 * arg[3]

\* The bytes from position i on are UTF-8 as the unpickler accepts it
\* (errors="surrogatepass").
RECURSIVE Utf8(_, _)
Utf8(bytes, i) ==
    IF i > Len(bytes) THEN TRUE
    ELSE LET c == bytes[i]
             more == IF c < 128 THEN 0
                     ELSE IF c >= 194 /\ c <= 223 THEN 1
                     ELSE IF c >= 224 /\ c <= 239 THEN 2
                     ELSE IF c >= 240 /\ c <= 244 THEN 3
                     ELSE 4
             low  == IF c = 224 THEN 160 ELSE IF c = 240 THEN 144 ELSE 128
             high == IF c = 244 THEN 143 ELSE 191
         IN  /\ more < 4
             /\ i + more <= Len(bytes)
             /\ more >= 1 => (bytes[i + 1] >= low /\ bytes[i + 1] <= high)
             /\ \A k \in 2..more : bytes[i + k] >= 128 /\ bytes[i + k] <= 191
             /\ Utf8(bytes, i + more + 1)

\* The unpickler at position i of the payload, with its stack and the
\* positions of its marks.
RECURSIVE Unpickle(_, _, _, _)
Unpickle(bytes, i, stack, marks) ==
    IF i > Len(bytes) THEN Raised("EOFError")
    ELSE LET op    == bytes[i]
             n     == Len(stack)
             fence == Fence(marks)
             rest  == SubSeq(marks, 1, Len(marks) - 1)
             Truncated(width) == i + width > Len(bytes)
             Push(value, width) ==
                 Unpickle(bytes, i + 1 + width, Append(stack, value), marks)
             Goes(done, left) ==
                 IF done.status = "ok" THEN Unpickle(bytes, i + 1, done.value, left)
                 ELSE done
             Text(from, len) ==
                 IF from + len - 1 > Len(bytes) THEN Raised("UnpicklingError")
                 ELSE IF ~Utf8(SubSeq(bytes, from, from + len - 1), 1)
                 THEN Raised("UnicodeDecodeError")
                 ELSE Unpickle(bytes, from + len,
                          Append(stack, PyStr(SubSeq(bytes, from, from + len - 1))),
                          marks)
         IN  CASE op = OpStop ->
                    IF n <= fence THEN Raised("UnpicklingError")
                    ELSE Returned(stack[n])
               [] op = OpNone -> Push(PyNone, 0)
               [] op = OpNewTrue -> Push(PyBool(1), 0)
               [] op = OpNewFalse -> Push(PyBool(0), 0)
               [] op = OpEmptyDict -> Push(PyDict(<<>>), 0)
               [] op = OpEmptyList -> Push(PyList(<<>>), 0)
               [] op = OpEmptyTuple -> Push(PyTuple(<<>>), 0)
               [] op = OpBinInt1 ->
                    IF Truncated(1) THEN Raised("UnpicklingError")
                    ELSE Push(PyInt(bytes[i + 1]), 1)
               [] op = OpBinInt2 ->
                    IF Truncated(2) THEN Raised("UnpicklingError")
                    ELSE Push(PyInt(bytes[i + 1] + 256 * bytes[i + 2]), 2)
               [] op = OpShortBinUnicode ->
                    IF Truncated(1) THEN Raised("UnpicklingError")
                    ELSE Text(i + 2, bytes[i + 1])
               [] op = OpBinUnicode ->
                    IF Truncated(4) THEN Raised("UnpicklingError")
                    ELSE Text(i + 5, ArgLength(SubSeq(bytes, i + 1, i + 4)))
               [] op = OpMark -> Unpickle(bytes, i + 1, stack, Append(marks, n))
               [] op = OpSetItem -> Goes(DoSetItems(stack, n - 2, fence), marks)
               [] op = OpSetItems ->
                    IF marks = <<>> THEN Raised("UnpicklingError")
                    ELSE Goes(DoSetItems(stack, fence, Fence(rest)), rest)
               [] op = OpAppend -> Goes(DoAppend(stack, n - 1, fence), marks)
               [] op = OpAppends ->
                    IF marks = <<>> THEN Raised("UnpicklingError")
                    ELSE Goes(DoAppend(stack, fence, Fence(rest)), rest)
               [] op = OpTuple ->
                    IF marks = <<>> THEN Raised("UnpicklingError")
                    ELSE Goes(PopTuple(stack, fence, Fence(rest)), rest)
               [] op \in {OpTuple1, OpTuple2, OpTuple3} ->
                    IF n < op - 132 THEN Raised("UnpicklingError")
                    ELSE Goes(PopTuple(stack, n - (op - 132), fence), marks)
               [] op = OpPop ->
                    IF marks # <<>> /\ fence = n
                    THEN Unpickle(bytes, i + 1, stack, rest)
                    ELSE IF n <= fence THEN Raised("UnpicklingError")
                    ELSE Unpickle(bytes, i + 1, SubSeq(stack, 1, n - 1), marks)
               [] op = OpMemoize ->
                    IF n <= fence THEN Raised("UnpicklingError")
                    ELSE Unpickle(bytes, i + 1, stack, marks)
               [] op = OpBinPut ->
                    IF Truncated(1) \/ n <= fence THEN Raised("UnpicklingError")
                    ELSE Unpickle(bytes, i + 2, stack, marks)
               [] op = OpProto ->
                    IF Truncated(1) THEN Raised("UnpicklingError")
                    ELSE IF bytes[i + 1] > HighestProtocol THEN Raised("ValueError")
                    ELSE Unpickle(bytes, i + 2, stack, marks)
               [] op = OpFrame ->
                    IF Truncated(8) THEN Raised("UnpicklingError")
                    ELSE IF bytes[i + 8] >= 128 THEN Raised("OverflowError")
                    ELSE IF i + 8 + ArgLength(SubSeq(bytes, i + 1, i + 8)) > Len(bytes)
                    THEN Raised("UnpicklingError")
                    ELSE Unpickle(bytes, i + 9, stack, marks)
               [] op \in OtherOpcodes -> NotInterpreted
               [] OTHER -> Raised("UnpicklingError")

\* pickle.loads(chunk)
Loads(chunk) == Unpickle(chunk, 1, <<>>, <<>>)

\* The code points of a str, each as its UTF-8 bytes.
RECURSIVE Chars(_)
Chars(bytes) ==
    IF bytes = <<>> THEN <<>>
    ELSE LET IsTail(k) == bytes[k] >= 128 /\ bytes[k] <= 191
             last == CHOOSE k \in 1..Len(bytes) :
                        /\ \A j \in 2..k : IsTail(j)
                        /\ k = Len(bytes) \/ ~IsTail(k + 1)
         IN  <<PyStr(SubSeq(bytes, 1, last))>> \o
             Chars(SubSeq(bytes, last + 1, Len(bytes)))

\* iter(value): the items it yields; None, a bool and an int yield none and
\* are not iterable.
Iterable(value) == value.t \in {"str", "list", "tuple", "dict"}

Iterate(value) ==
    IF value.t = "str" THEN Chars(value.v)
    ELSE IF value.t = "dict" THEN [k \in 1..Len(value.v) |-> value.v[k][1]]
    ELSE value.v

\* dict.update(iterable): every element from position j on is a pair.
RECURSIVE UpdatePairs(_, _, _)
UpdatePairs(items, elements, j) ==
    IF j > Len(elements) THEN Returned(PyDict(items))
    ELSE IF ~Iterable(elements[j]) THEN Raised("TypeError")
    ELSE LET pair == Iterate(elements[j])
         IN  IF Len(pair) # 2 THEN Raised("ValueError")
             ELSE IF ~Hashable(pair[1]) THEN Raised("TypeError")
             ELSE UpdatePairs(SetItem(items, pair[1], pair[2]), elements, j + 1)

\* logging.makeLogRecord(obj): rv.__dict__.update(obj); the value is the
\* dict of the attributes obj sets.
MakeLogRecord(obj) ==
    IF obj.t = "dict" THEN Returned(obj)
    ELSE IF ~Iterable(obj) THEN Raised("TypeError")
    ELSE UpdatePairs(<<>>, Iterate(obj), 1)

\* record.<name>, None when obj did not set it.
Attribute(record, name) ==
    IF \E i \in 1..Len(record.v) : PyEq(record.v[i][1], PyStr(name))
    THEN LET i == CHOOSE j \in 1..Len(record.v) : PyEq(record.v[j][1], PyStr(name))
         IN  record.v[i][2]
    ELSE PyNone

\* `not value`
Falsy(value) ==
    \/ value.v = <<>>
    \/ value.t \in {"int", "bool"} /\ value.v = <<0>>

\* "log" in ASCII, the name given to a receiver.
LogName == <<108, 111, 103>>

\* LogRecordSocketReceiver(name): None as LogServer builds it, or a str.
LogNames == {PyNone, PyStr(LogName)}

\* The logger of a receiver: enabled and its filters take the record,
\* enabled and a filter drops it, or disabled (its filters are not asked).
Loggers ==
    {[disabled |-> FALSE, filter |-> TRUE],
     [disabled |-> FALSE, filter |-> FALSE],
     [disabled |-> TRUE, filter |-> TRUE]}

\* handle_log_record(record) of a receiver whose logname is name, lg being
\* the logger reached: the name is self.logname unless that is None, and
\* record.name then; logging.getLogger(name) gives the root logger for a
\* name that is false and wants a str otherwise; logger.handle returns at
\* once for a disabled logger or a record its filters drop, and otherwise
\* compares record.levelno with the level of each handler of the chain
\* (of logging.lastResort when the chain has none), which raises TypeError
\* unless levelno is a number.
HandleLogRecord(name, record, lg) ==
    LET used == IF name # PyNone THEN name ELSE Attribute(record, NameKey)
    IN  IF ~Falsy(used) /\ used.t # "str" THEN "TypeError"
        ELSE IF lg.disabled \/ ~lg.filter THEN "ok"
        ELSE IF Attribute(record, LevelnoKey).t \notin {"int", "bool"}
        THEN "TypeError"
        ELSE "ok"

\* stream.read_bytes(n): the next n bytes once the stream holds them;
\* StreamClosedError when it was closed with fewer; otherwise the read waits.
ReadBytes(n) ==
    IF arrived - consumed >= n
    THEN [status |-> "ok", chunk |-> SubSeq(wire, consumed + 1, consumed + n)]
    ELSE IF closed THEN [status |-> "closed", chunk |-> <<>>]
    ELSE [status |-> "wait", chunk |-> <<>>]

StreamInit ==
    /\ GenIdle
    /\ ConcIdle
    /\ LogIdle
    /\ NadirIdle
    /\ records \in SeqsUpTo(Payloads, MaxRecords)
    /\ wire = Frames(records)
    /\ arrived = 0
    /\ closed = FALSE
    /\ consumed = 0
    /\ hpc = "header"
    /\ slen = 0
    /\ dispatched = <<>>
    /\ stream_error = NoName
    /\ logname \in LogNames
    /\ record_logger \in Loggers

\* One more byte written by the peer reaches the stream.
StreamArrive ==
    /\ ~closed
    /\ arrived < Len(wire)
    /\ arrived' = arrived + 1
    /\ UNCHANGED <<records, wire, closed, consumed, hpc, slen, dispatched,
                   stream_error, logname, record_logger, notStream>>

\* The connection is closed, whatever part of the bytes has arrived.
StreamClose ==
    /\ ~closed
    /\ closed' = TRUE
    /\ UNCHANGED <<records, wire, arrived, consumed, hpc, slen, dispatched,
                   stream_error, logname, record_logger, notStream>>

\* `chunk = await stream.read_bytes(4)` ends: the length is unpacked, a
\* short chunk or StreamClosedError leaves the loop.
StreamReadHeader ==
    /\ hpc = "header"
    /\ LET got == ReadBytes(4)
       IN  /\ got.status # "wait"
           /\ IF got.status = "closed" \/ Len(got.chunk) < 4
              THEN hpc' = "done" /\ UNCHANGED <<consumed, slen>>
              ELSE /\ slen' = Unpack(got.chunk)
                   /\ consumed' = consumed + 4
                   /\ hpc' = "payload"
    /\ UNCHANGED <<records, wire, arrived, closed, dispatched, stream_error,
                   logname, record_logger, notStream>>

\* `chunk = await stream.read_bytes(slen)` ends: StreamClosedError leaves
\* the loop; otherwise the payload is unpickled, the record is made and
\* handle_log_record gets it, and an exception of one of the three leaves
\* handle_stream.
StreamReadPayload ==
    /\ hpc = "payload"
    /\ LET got == ReadBytes(slen)
       IN  /\ got.status # "wait"
           /\ IF got.status = "closed"
              THEN /\ hpc' = "done"
                   /\ UNCHANGED <<consumed, dispatched, stream_error>>
              ELSE LET obj == Loads(got.chunk)
                       rec == IF obj.status = "ok" THEN MakeLogRecord(obj.value)
                              ELSE obj
                   IN  /\ obj.status # "unmodelled"
                       /\ consumed' = consumed + slen
                       /\ IF rec.status = "raised"
                          THEN /\ hpc' = "raised"
                               /\ stream_error' = rec.exception
                               /\ dispatched' = dispatched
                          ELSE /\ dispatched' = Append(dispatched, rec.value)
                               /\ IF HandleLogRecord(logname, rec.value, record_logger) = "ok"
                                  THEN /\ hpc' = "header"
                                       /\ stream_error' = stream_error
                                  ELSE /\ hpc' = "raised"
                                       /\ stream_error' =
                                            HandleLogRecord(logname, rec.value, record_logger)
    /\ UNCHANGED <<records, wire, arrived, closed, slen, logname,
                   record_logger, notStream>>

StreamNext == StreamArrive \/ StreamClose \/ StreamReadHeader \/ StreamReadPayload

StreamSpec == StreamInit /\ [][StreamNext]_vars

(***************************************************************************)
(* product_specification.Nadir and Swath.  A variable name is the sequence *)
(* of its parts, so that removing "_nadir" from it is a real operation.    *)
(***************************************************************************)
TimeName == <<"basic/", "time">>

LonName == <<"basic/", "longitude">>

LatName == <<"basic/", "latitude">>

LonNadirName == <<"expert/", "longitude", "_nadir">>

LatNadirName == <<"expert/", "latitude", "_nadir">>

XacName == <<"expert/", "cross_track_distance">>

SshKarinName == <<"basic/", "ssh_karin">>

SshNadirName == <<"basic/", "ssh", "_nadir">>

\* The variables of the product specification that the methods of
\* ProductSpecification name, and basic/time_tai.
Catalog ==
    <<TimeName, <<"basic/", "time_tai">>, LonName, LatName, SshKarinName,
      XacName, LonNadirName, LatNadirName>>

\* The name of the array each method of ProductSpecification returns.
ProductName(attr) ==
    CASE attr = "x_ac"      -> XacName
      [] attr = "lon"       -> LonName
      [] attr = "lon_nadir" -> LonNadirName
      [] attr = "lat"       -> LatName
      [] attr = "lat_nadir" -> LatNadirName
      [] attr = "ssh_karin" -> SshKarinName
      [] attr = "ssh_nadir" -> SshNadirName

\* name.replace("_nadir", "")
RemoveNadir(name) == SelectSeq(name, LAMBDA part : part # "_nadir")

\* Nadir._data_array: the array is renamed on a standalone product, its
\* encoding is stored under the name and the array is appended.
Registered(alone, attr) ==
    IF alone = "True" THEN RemoveNadir(ProductName(attr)) ELSE ProductName(attr)

\* fill_variables: the catalog entries that are not among the given names.
RECURSIVE FillVariables(_, _)
FillVariables(items, names) ==
    IF items = <<>> THEN <<>>
    ELSE IF Head(items) \in names THEN FillVariables(Tail(items), names)
         ELSE <<Head(items)>> \o FillVariables(Tail(items), names)

NadirInit ==
    /\ GenIdle
    /\ ConcIdle
    /\ LogIdle
    /\ StreamIdle
    /\ NadirIdle

\* Nadir(track, standalone)
NadirNew ==
    /\ kind = "none"
    /\ \E alone \in {"True", "False", "None"}, n \in 0..MaxLen :
        /\ kind' = "Nadir"
        /\ standalone' = alone
        /\ num_lines' = n
        /\ data_vars' = <<TimeName, Registered(alone, "lon_nadir"),
                          Registered(alone, "lat_nadir")>>
        /\ encoding' = Range(data_vars')
    /\ UNCHANGED <<ssh_calls, written, complete, lookup, notNadir>>

\* Swath(track)
SwathNew ==
    /\ kind = "none"
    /\ \E n \in 0..MaxLen :
        /\ kind' = "Swath"
        /\ standalone' = "False"
        /\ num_lines' = n
        /\ data_vars' = <<TimeName, Registered("False", "lon_nadir"),
                          Registered("False", "lat_nadir"), Registered("False", "x_ac"),
                          Registered("False", "lon"), Registered("False", "lat")>>
        /\ encoding' = Range(data_vars')
    /\ UNCHANGED <<ssh_calls, written, complete, lookup, notNadir>>

\* Nadir.ssh / Swath.ssh
Ssh ==
    /\ kind # "none"
    /\ ssh_calls < MaxSsh
    /\ LET name == Registered(standalone,
                              IF kind = "Swath" THEN "ssh_karin" ELSE "ssh_nadir")
       IN  /\ data_vars' = Append(data_vars, name)
           /\ encoding' = encoding \cup {name}
    /\ ssh_calls' = ssh_calls + 1
    /\ UNCHANGED <<kind, standalone, num_lines, written, complete, lookup, notNadir>>

\* global_attributes(..., date, lng, lat) reads date[0] and date[-1], which
\* raises IndexError on the time array of a track without lines.
GlobalAttributes(lines) == IF lines = 0 THEN "IndexError" ELSE "ok"

\* Nadir.to_netcdf: the dict of the arrays by name, the fill of a complete
\* product, then the lookup of longitude and latitude; a name that is not
\* in the dict raises KeyError; then the global attributes are computed from
\* the time array and the dataset is written.
ToNetcdf ==
    /\ kind # "none"
    /\ \E complete_product \in BOOLEAN :
        LET names  == Range(data_vars)
            filled == IF complete_product /\ LonName \in names
                      THEN FillVariables(Catalog, names) ELSE <<>>
            wanted == IF LonName \in names THEN <<LonName, LatName>>
                      ELSE <<LonNadirName, LatNadirName>>
        IN  /\ data_vars' = data_vars \o filled
            /\ encoding' = encoding \cup Range(filled)
            /\ lookup' = wanted
            /\ complete' = complete_product
            /\ written' = IF Range(wanted) \subseteq names
                          THEN GlobalAttributes(num_lines) ELSE "KeyError"
    /\ UNCHANGED <<kind, standalone, num_lines, ssh_calls, notNadir>>

NadirNext == NadirNew \/ SwathNew \/ Ssh \/ ToNetcdf

NadirSpec == NadirInit /\ [][NadirNext]_vars

\* A bounded sequence of generate calls on one Generator, one after the other.
SeqNext == Construct \/ CountedCall \/ Submit \/ Finish \/ Fail \/ Drain

SeqSpec == Init /\ [][SeqNext]_vars

(***************************************************************************)
(* Properties                                                              *)
(***************************************************************************)
Futs == 1..Len(futures)

Gens == 1..Len(generators)

\* The call took the path past the short-circuit.
NonDegenerate == ctor = "ok" /\ pc # "idle" /\ generators # <<>> /\ x_al > 0

\* No class is configured twice.
DistinctVariants ==
    \A i, j \in Gens : i # j => generators[i].variant # generators[j].variant

\* C1: generate is all-or-nothing: when a submitted computation has failed
\* the call does not return and the caller holds no mapping, whatever was
\* merged into the aggregate before the failure was drained.
C1_AllOrNothing ==
    /\ (\E f \in Futs : futures[f].status = "error") => (pc # "returned" /\ ret = {})
    /\ pc = "raised" => ret = {}

\* A call that raised after another model's fields had been merged.
C1_Witness ==
    /\ pc = "raised"
    /\ DOMAIN result # {}
    /\ ret = {}

\* C2: on a non-empty along-track input, for a combination of active models
\* (no class taken twice) whose computations all succeeded, the keys of the
\* returned mapping are exactly the union of the models' declared field
\* names, each name contributed by one model only.
C2_KeysAreUnion ==
    (NonDegenerate /\ pc = "returned" /\ DistinctVariants) =>
        \E m \in ret :
            /\ DOMAIN m = UNION {Fields(generators[i].variant) : i \in Gens}
            /\ \A k \in DOMAIN m :
                /\ Cardinality({i \in Gens : k \in Fields(generators[i].variant)}) = 1
                /\ inserts[k] = 1

\* Two different models returned, one of them with two fields.
C2_Witness ==
    /\ NonDegenerate /\ pc = "returned" /\ DistinctVariants
    /\ Len(generators) = 2
    /\ \E m \in ret : Cardinality(DOMAIN m) = 3

\* C3: with an along-track array of length 0 generate returns the empty
\* mapping, submits nothing and never opens the worker client, whatever the
\* active models.
C3_EmptyTrack ==
    (ctor = "ok" /\ pc # "idle" /\ x_al = 0) =>
        /\ pc = "returned"
        /\ ret = {EmptyMap}
        /\ submissions = 0
        /\ futures = <<>>
        /\ ~client_opened

\* An empty track handed to a Generator with active models.
C3_Witness ==
    /\ pc = "returned" /\ x_al = 0
    /\ Len(generators) >= 2

\* C4: with no active model generate returns the empty mapping for any
\* input size and does not touch the execution facility.
C4_NoModels ==
    (ctor = "ok" /\ pc # "idle" /\ generators = <<>>) =>
        /\ pc = "returned"
        /\ ret = {EmptyMap}
        /\ submissions = 0
        /\ futures = <<>>
        /\ ~client_opened

\* A non-empty track handed to a Generator without models.
C4_Witness ==
    /\ ctor = "ok" /\ generators = <<>>
    /\ pc = "returned" /\ x_al > 0

\* The configured names that are none of the six classes, by position.
UnknownAt == {i \in 1..Len(noise) : noise[i] \notin Known}

FirstUnknown == CHOOSE i \in UnknownAt : \A j \in UnknownAt : i <= j

\* C5 as written: construction fails for every configured name that matches
\* no class, with an error that quotes that very name, and no Generator is
\* handed out.
C5_QuotesEveryUnknown ==
    ctor # "new" =>
        \A i \in UnknownAt :
            /\ ctor = "raised"
            /\ exception = "ValueError"
            /\ error = noise[i]
            /\ pc = "idle" /\ ret = {}

\* C5 amended: when the noise list holds a name that matches no class,
\* construction fails, wherever the name stands, and no Generator is handed
\* out, so generate never runs; when the error spectrum is set, the error is
\* the ValueError of the loop and quotes the first such name of the list;
\* when it is not, the assertion ahead of the loop fails and no name is
\* quoted.
C5_QuotesFirstUnknown ==
    (ctor # "new" /\ UnknownAt # {}) =>
        /\ ctor = "raised"
        /\ pc = "idle" /\ ret = {}
        /\ error_spectrum # "None" =>
              exception = "ValueError" /\ error = noise[FirstUnknown]
        /\ error_spectrum = "None" =>
              exception = "AssertionError" /\ error = NoName

\* Construction failed on a name that follows a valid one.
C5_Witness ==
    /\ ctor = "raised"
    /\ exception = "ValueError"
    /\ Len(noise) = 2
    /\ noise[1] \in Known
    /\ noise[2] \notin Known
    /\ error = noise[2]

\* The calibration channels each class requires, as the claim lists them.
C6_Required(name) ==
    CASE name = "BaselineDilation" -> {"dilationPSD", "spatial_frequency"}
      [] name = "RollPhase"        -> {"rollPSD", "phasePSD", "spatial_frequency"}
      [] name = "Timing"           -> {"timingPSD", "spatial_frequency"}
      [] OTHER                     -> {}

\* C6: a configuration of K distinct valid names gives K instances, the i-th
\* of the class named i-th, each built from exactly the channels its class
\* requires.
C6_OneInstancePerName ==
    (/\ ctor = "ok"
     /\ \A i, j \in 1..Len(noise) : i # j => noise[i] # noise[j]) =>
        /\ Len(generators) = Len(noise)
        /\ \A i \in 1..Len(noise) :
            /\ generators[i].variant = noise[i]
            /\ Range(generators[i].channels) = C6_Required(noise[i])
            /\ Len(generators[i].channels) = Cardinality(C6_Required(noise[i]))

\* Timing configured ahead of RollPhase.
C6_Witness ==
    /\ ctor = "ok"
    /\ noise = <<"Timing", "RollPhase">>
    /\ Len(generators) = 2

\* The call arguments of each class, as the claim lists them.
C7_Args(variant) ==
    CASE variant = "Altimeter" -> <<"x_al">>
      [] variant = "Karin"     -> <<"x_al", "x_ac", "curvilinear_distance", "cycle_number">>
      [] OTHER                 -> <<"x_al", "x_ac">>

\* C7: past the short-circuit, once the submission loop is over, one unit
\* has been submitted per active model, none skipped, the i-th unit for the
\* i-th model and bound to the arguments of its class.
C7_OneUnitPerModel ==
    /\ (NonDegenerate /\ pc = "submitting") =>
            (submissions = idx - 1 /\ Len(futures) = idx - 1)
    /\ (NonDegenerate /\ pc \in {"draining", "returned", "raised"}) =>
        /\ submissions = Len(generators)
        /\ Len(futures) = Len(generators)
        /\ \A i \in Futs :
            /\ futures[i].item = i
            /\ futures[i].args = C7_Args(generators[i].variant)

\* Karin and Altimeter both submitted.
C7_Witness ==
    /\ pc = "draining"
    /\ Len(futures) = 2
    /\ \E i, j \in Futs :
        /\ generators[futures[i].item].variant = "Karin"
        /\ generators[futures[j].item].variant = "Altimeter"

\* generate returned a mapping only after every submitted unit succeeded and
\* was merged, and raised only after a unit failed.
C8_Safe ==
    /\ (NonDegenerate /\ pc = "returned") =>
        /\ Len(futures) = Len(generators)
        /\ yielded = Len(futures)
        /\ \A f \in Futs :
            /\ futures[f].status = "finished"
            /\ \A k \in Fields(generators[futures[f].item].variant) : k \in DOMAIN result
        /\ ret = {result}
    /\ pc = "raised" => \E f \in Futs : futures[f].status = "error"

\* C8: generate does not return before all submitted computations have
\* succeeded and been merged or one has failed, never returns a mapping
\* while a unit is outstanding, and, every submitted unit ending, a running
\* call ends by returning or raising.
C8_WaitsForAll ==
    /\ []C8_Safe
    /\ (pc \in {"submitting", "draining"}) ~> (pc \in {"returned", "raised"})

\* A full merge whose units completed against the submission order.
C8_Witness ==
    /\ pc = "returned"
    /\ completed = <<2, 1>>
    /\ yielded = 2

\* The field names of two active instances never coincide.
PairwiseDisjoint ==
    \A i, j \in Gens :
        i # j => Fields(generators[i].variant) \cap Fields(generators[j].variant) = {}

\* C9: for every Generator the constructor accepts, the field-name sets of
\* the active instances are pairwise disjoint and no field name is inserted
\* into the aggregate twice during a call (so the completion order cannot
\* decide a value of the returned mapping).
C9_DisjointFields ==
    /\ ctor = "ok" => PairwiseDisjoint
    /\ \A k \in AllFields : inserts[k] <= 1

\* No model is submitted twice in a call.
C10_AtMostOnce ==
    /\ \A i, j \in Futs : i # j => futures[i].item # futures[j].item
    /\ submissions <= Len(generators)

\* C10 as written: each model is submitted at most once in a call, and once
\* a submitted unit has failed the orchestrator submits nothing more.
C10_NoSubmitAfterFailure ==
    /\ []C10_AtMostOnce
    /\ [][(\E f \in Futs : futures[f].status = "error") =>
            (submissions' <= submissions /\ Len(futures') <= Len(futures))]_vars

\* C10 amended: each model is submitted at most once in a call, and nothing
\* is submitted once the submission loop is over, hence nothing after the
\* orchestrator has drained a failure; a unit may fail on its worker while the
\* loop is still submitting the models after it.
C10_NoSubmitAfterLoop ==
    /\ []C10_AtMostOnce
    /\ [][pc # "submitting" =>
            (submissions' <= submissions /\ Len(futures') <= Len(futures))]_vars

\* A failure was drained while the other unit was still outstanding.
C10_Witness ==
    /\ pc = "raised"
    /\ submissions = 2
    /\ \E f \in Futs : futures[f].status = "pending"

\* Every key of the aggregate, and of a returned mapping, was inserted by the
\* running call.
C12_OwnFieldsOnly ==
    /\ \A k \in DOMAIN result : inserts[k] >= 1
    /\ \A m \in ret : \A k \in DOMAIN m : inserts[k] >= 1

\* C12: generate keeps no state from one call to the next: through any
\* sequence of calls, returned, short-circuited or failed, the active-model
\* list stays what construction made it, each call starts from an empty
\* aggregate, and no call's aggregate or result holds a field that only an
\* earlier call merged.
C12_NoCrossCallState ==
    /\ []C12_OwnFieldsOnly
    /\ [][ctor = "ok" => generators' = generators]_vars
    /\ [][calls' # calls => result' = EmptyMap]_vars

\* A short-circuited call that follows a call which had merged fields.
C12_Witness ==
    /\ calls = 2
    /\ earlier # {}
    /\ pc = "returned"
    /\ x_al = 0
    /\ ret = {EmptyMap}

\* C11: with model instances free of mutable state, two generate calls that
\* run concurrently on one Generator do not interfere: every value in a
\* call's aggregate and result was computed from that call's own request, a
\* returned mapping has exactly the fields of the active models, and a call
\* raises only when one of its own units failed.
C11_NoInterference ==
    \A c \in Callers :
        /\ \A k \in DOMAIN conc[c].result : conc[c].result[k][1] = c
        /\ \A m \in conc[c].ret : \A k \in DOMAIN m : m[k][1] = c
        /\ (conc[c].pc = "returned" /\ conc[c].futures # <<>>) =>
              /\ \A f \in 1..Len(conc[c].futures) : conc[c].futures[f].status = "finished"
              /\ \E m \in conc[c].ret :
                    DOMAIN m = UNION {Fields(generators[i].variant) : i \in Gens}
        /\ (conc[c].pc = "returned" /\ conc[c].futures = <<>>) => conc[c].ret = {EmptyMap}
        /\ conc[c].pc = "raised" =>
              \E f \in 1..Len(conc[c].futures) : conc[c].futures[f].status = "error"
        /\ conc[c].pc # "returned" => conc[c].ret = {}

\* Both calls are draining at once, each has merged fields, and a unit of
\* the second has failed while every unit of the first succeeded.
C11_Witness ==
    /\ conc[1].pc = "draining" /\ conc[2].pc = "draining"
    /\ DOMAIN conc[1].result # {} /\ DOMAIN conc[2].result # {}
    /\ \E f \in 1..Len(conc[2].futures) : conc[2].futures[f].status = "error"
    /\ \A f \in 1..Len(conc[1].futures) : conc[1].futures[f].status = "finished"

\* The threads that are between the handler test and the end of the loop.
InSetup == {t \in DOMAIN threads : threads[t].pc # "idle"}

\* The positions of the handlers of one class on a logger.
Handlers(n, class) ==
    {i \in 1..Len(loggers[n].handlers) : loggers[n].handlers[i] = class}

\* logbook.setup has written to the logger since the first state.
SetupReached(n) ==
    \/ setup.calls > 1
    \/ setup.calls = 1 /\
          \/ setup.pc = "idle"
          \/ \E k \in 1..Len(LoggerNames) :
                /\ n = LoggerNames[k]
                /\ k < setup.i \/ (k = setup.i /\ setup.pc # "propagate")

\* C13: setup_worker_logging is idempotent under concurrency: whatever the
\* number of calls and their interleaving, a logger that started without a
\* handler never holds more than one, a SocketHandler, and holds exactly one
\* once a call has returned; a logger that started with a handler is left as
\* it was (logbook.setup, which takes no lock, aside: a logger it has
\* configured meanwhile holds the handler of setup too, and never a second
\* SocketHandler); and the test and the addition run under LOCK, one thread
\* at a time.
C13_OneSocketHandler ==
    /\ \A n \in DOMAIN loggers :
        /\ Cardinality(Handlers(n, "SocketHandler")) <= 1
        /\ loggers0[n].handlers # <<>> => Handlers(n, "SocketHandler") = {}
        /\ ~SetupReached(n) =>
            IF loggers0[n].handlers = <<>>
            THEN /\ loggers[n].handlers \in {<<>>, <<"SocketHandler">>}
                 /\ (\E t \in DOMAIN threads : threads[t].done = 1) =>
                        loggers[n].handlers = <<"SocketHandler">>
            ELSE loggers[n] = loggers0[n]
    /\ Cardinality(InSetup) <= 1
    /\ \A t \in InSetup : lock.owner = t

\* Both threads have called; one logger got its handler from the call, the
\* other kept the handler it had; a thread is in a further call.
C13_Witness ==
    /\ \A t \in DOMAIN threads : threads[t].done = 1
    /\ InSetup # {}
    /\ loggers0["distributed"].handlers = <<>>
    /\ loggers["distributed"].handlers = <<"SocketHandler">>
    /\ loggers0["swot_simulator"].handlers # <<>>
    /\ threads # <<>>

\* Where the k-th record ends on the wire.
RECURSIVE FrameEnd(_)
FrameEnd(k) == IF k = 0 THEN 0 ELSE FrameEnd(k - 1) + 4 + Len(records[k])

\* The records whose bytes have all arrived.
Arrived == {k \in 0..Len(records) : FrameEnd(k) <= arrived}

\* The payload unpickles and makeLogRecord takes the object.
Makes(payload) ==
    /\ Loads(payload).status = "ok"
    /\ MakeLogRecord(Loads(payload).value).status = "ok"

\* The record handle_log_record is given for the payload.
RecordOf(payload) == MakeLogRecord(Loads(payload).value).value

\* The payload is dispatched and handle_log_record returns.
Handled(payload) ==
    /\ Makes(payload)
    /\ HandleLogRecord(logname, RecordOf(payload), record_logger) = "ok"

\* C14 as written: handle_stream gives each length-prefixed record to
\* handle_log_record once and in the order of the stream, a record only
\* after all the payload bytes its prefix declares were read, and the loop
\* ends when the stream is closed, before, or inside, a prefix or a payload,
\* with every complete record dispatched and no partial one.
C14_EachRecordOnce ==
    /\ Len(dispatched) <= Len(records)
    /\ \A k \in 1..Len(dispatched) : dispatched[k] = RecordOf(records[k])
    /\ Len(dispatched) \in Arrived
    /\ hpc = "header" => consumed = FrameEnd(Len(dispatched))
    /\ hpc = "payload" =>
        /\ consumed = FrameEnd(Len(dispatched)) + 4
        /\ slen = Len(records[Len(dispatched) + 1])
    /\ consumed \in {FrameEnd(Len(dispatched)), FrameEnd(Len(dispatched)) + 4}
    /\ consumed <= arrived
    /\ hpc \notin {"header", "payload"} =>
        /\ closed
        /\ \A k \in Arrived : k <= Len(dispatched)

\* C14 amended: handle_stream gives each length-prefixed record to
\* handle_log_record once and in the order of the stream, a record only
\* after all the payload bytes its prefix declares were read, as long as
\* every payload unpickles to an object makeLogRecord takes and
\* handle_log_record returns; the first record of which one of the three
\* raises ends handle_stream with that exception, dispatched when it is
\* handle_log_record that raised and not dispatched otherwise, and no later
\* record is read.  When the stream is closed, before, or inside, a prefix
\* or a payload, the loop ends with exactly the complete records dispatched
\* and no partial one.
C14_EachHandledRecordOnce ==
    /\ Len(dispatched) <= Len(records)
    /\ \A k \in 1..Len(dispatched) :
        /\ Makes(records[k])
        /\ dispatched[k] = RecordOf(records[k])
        /\ (k < Len(dispatched) \/ hpc # "raised") => Handled(records[k])
    /\ Len(dispatched) \in Arrived
    /\ consumed <= arrived
    /\ hpc = "header" => consumed = FrameEnd(Len(dispatched))
    /\ hpc = "payload" =>
        /\ consumed = FrameEnd(Len(dispatched)) + 4
        /\ slen = Len(records[Len(dispatched) + 1])
    /\ hpc = "done" =>
        /\ closed
        /\ consumed \in {FrameEnd(Len(dispatched)), FrameEnd(Len(dispatched)) + 4}
        /\ \A k \in Arrived : k <= Len(dispatched)
    /\ hpc = "raised" <=> stream_error # NoName
    /\ hpc = "raised" =>
        \/ /\ Len(dispatched) >= 1
           /\ consumed = FrameEnd(Len(dispatched))
           /\ ~Handled(records[Len(dispatched)])
           /\ stream_error =
                HandleLogRecord(logname, dispatched[Len(dispatched)],
                                record_logger)
        \/ /\ Len(dispatched) < Len(records)
           /\ consumed = FrameEnd(Len(dispatched) + 1)
           /\ ~Makes(records[Len(dispatched) + 1])
           /\ (Len(dispatched) >= 1 => Handled(records[Len(dispatched)]))

\* The stream was closed inside the payload of the second record: the first
\* was dispatched and handled, the second was not dispatched.
C14_Witness ==
    /\ hpc = "done"
    /\ Len(records) = 2
    /\ Len(records[1]) # Len(records[2])
    /\ Handled(records[1]) /\ Handled(records[2])
    /\ Len(dispatched) = 1
    /\ arrived > FrameEnd(1) + 4
    /\ arrived < FrameEnd(2)

\* C15: to_netcdf always finds the longitude and latitude it looks up among
\* the variables registered at construction, on a standalone Nadir as on a
\* Swath: basic/longitude and basic/latitude are registered, or
\* expert/longitude_nadir and expert/latitude_nadir are, and the lookup never
\* fails on a missing name.
C15_LookupNeverFails ==
    /\ kind # "none" =>
        \/ {LonName, LatName} \subseteq Range(data_vars)
        \/ {LonNadirName, LatNadirName} \subseteq Range(data_vars)
    /\ written # "KeyError"

====
